---------------------------- MODULE Spec2Model ----------------------------
(***************************************************************************)
(* Business KPI Analyzer: model of src/ai_logic.py (model selection, the   *)
(* Narrative Summarizer and the Conversational Context Manager),           *)
(* src/features.py (ingestion, digest, report orchestration) and the       *)
(* session loop of src/main.py.                                            *)
(*                                                                         *)
(* Python strings are modelled as sequences of text pieces, so that        *)
(* formatting (f-strings) is concatenation, str.startswith looks at the    *)
(* first piece, 'x in s' looks for a piece and str.split cuts at pieces.   *)
(***************************************************************************)
EXTENDS Integers, Sequences, FiniteSets, TLC

VARIABLES
    listing,           \* SpecSel: the outcome of genai.list_models()
    selected,          \* SpecSel: what _get_suitable_model returned / raised
    aiCall,            \* SpecAI: the last call of generate_kpi_summary / chat_with_llm
    ingestCall,        \* SpecIngest: the last call of ingest_and_summarize_kpis
    reportCall,        \* SpecReport: the last call of generate_report_and_insights
    messages,          \* Spec: st.session_state.messages
    df_kpis,           \* Spec: st.session_state.df_kpis
    kpi_summary_text,  \* Spec: st.session_state.kpi_summary_text
    uploader,          \* Spec: the value of the file uploader, kept across script runs
    page,              \* Spec: what the last script run of main() rendered and was given
    chatLog            \* Spec: the last chat step of main() and the number of steps so far

\* the session of main() and the calls of the single entry points
sessionVars == <<messages, df_kpis, kpi_summary_text, uploader, page, chatLog>>
callVars == <<listing, selected, aiCall, ingestCall, reportCall>>
vars == <<callVars, sessionVars>>

-----------------------------------------------------------------------------
(* Bounds of the model                                                     *)

MaxModels == 3      \* models in one listing
MaxHist == 2        \* turns of a chat history handed to chat_with_llm
MaxNameLen == 3     \* pieces of an uploaded file's name
MaxCols == 2        \* columns of a parsed Table
MaxRows == 1        \* rows of a parsed Table
MaxChats == 2       \* chat steps of one session of main()

-----------------------------------------------------------------------------
(* Strings and exceptions                                                  *)

\* str.startswith(prefix), prefix being one piece
StartsWith(s, prefix) == Len(s) > 0 /\ s[1] = prefix

\* 'piece in s'
Contains(s, piece) == \E i \in 1..Len(s) : s[i] = piece

\* the least element of a set of numbers
Least(S) == CHOOSE i \in S : \A j \in S : i <= j

\* a call that returned v / that raised an exception whose text is e
Return(v) == [raised |-> FALSE, val |-> v, exc |-> <<>>]
Raise(e) == [raised |-> TRUE, val |-> <<>>, exc |-> e]


-----------------------------------------------------------------------------
(* ai_logic.py: _get_suitable_model                                        *)

\* names the provider may list, as pieces
ModelNames ==
    { <<"models/", "gemini-1.5-flash-latest">>,
      <<"models/", "gemini-1.0-pro">>,
      <<"models/", "gemini-pro">>,
      <<"models/", "gemini-2.0-flash">>,
      <<"models/", "embedding", "-001">>,
      <<"models/", "aqa">>,
      <<"tunedModels/", "kpi-tuned">> }

\* one listed model: its name and, when it has the attribute at all, its
\* supported_generation_methods
ModelEntries ==
    [name : ModelNames, has_methods : {TRUE}, methods : {{"generateContent"}, {"embedContent"}}]
    \cup { [name |-> <<"models/", "gemini-pro">>, has_methods |-> FALSE, methods |-> {}] }

RECURSIVE SeqsUpTo(_, _)
\* the sequences over S of length at most n
SeqsUpTo(S, n) ==
    IF n = 0 THEN { <<>> }
    ELSE LET shorter == SeqsUpTo(S, n - 1)
         IN  shorter \cup { Append(q, x) : q \in { r \in shorter : Len(r) = n - 1 }, x \in S }

\* genai.list_models(): the listing, or an exception (network, credentials)
ListOutcomes ==
    { Return(l) : l \in SeqsUpTo(ModelEntries, MaxModels) }
    \cup { Raise(<<"503 service unavailable">>) }

SupportsGenerateContent(m) == m.has_methods /\ "generateContent" \in m.methods

\* the capability filter of line 16 dropped: every listed model is kept
supported_models_names_unfiltered(available_models) ==
    [i \in 1..Len(available_models) |-> available_models[i].name]

\* lines 14-17: the names of the listed models that declare generateContent
supported_models_names(available_models) ==
    LET kept == SelectSeq(available_models, SupportsGenerateContent)
    IN  [i \in 1..Len(kept) |-> kept[i].name]

\* 'name in supported_models_names'
InList(name, names) == \E i \in 1..Len(names) : names[i] = name

\* model_name.replace('models/', '')
RemoveModelsPrefix(name) == SelectSeq(name, LAMBDA piece : piece # "models/")

\* lines 29-32: the first supported name without 'embedding' and 'aqa'
FirstTextModel(names) ==
    LET ok == { i \in 1..Len(names) :
                  ~Contains(names[i], "embedding") /\ ~Contains(names[i], "aqa") }
    IN  IF ok = {}
        THEN Raise(<<"No suitable text generation model found that supports generateContent after filtering.">>)
        ELSE Return(RemoveModelsPrefix(names[CHOOSE i \in ok : \A j \in ok : i <= j]))

\* lines 12-34, inside the try
SelectModel(listed) ==
    IF listed.raised THEN listed
    ELSE LET names == supported_models_names(listed.val)
         IN  IF InList(<<"models/", "gemini-1.5-flash-latest">>, names)
                 THEN Return(<<"gemini-1.5-flash-latest">>)
             ELSE IF InList(<<"models/", "gemini-1.0-pro">>, names)
                 THEN Return(<<"gemini-1.0-pro">>)
             ELSE IF InList(<<"models/", "gemini-pro">>, names)
                 THEN Return(<<"gemini-pro">>)
             ELSE IF Len(names) > 0
                 THEN FirstTextModel(names)
             ELSE Raise(<<"No models found that support generateContent.">>)

\* lines 11-37: every exception leaves as a ConnectionError carrying the cause
_get_suitable_model(listed) ==
    LET r == SelectModel(listed)
    IN  IF r.raised
        THEN Raise(<<"Failed to list or select a suitable Generative AI model: ">> \o r.exc)
        ELSE r

-----------------------------------------------------------------------------
(* ai_logic.py: the remote capability as the two entry points see it       *)

\* texts the remote model may generate; one is empty and one happens to
\* start with the error prefix
Texts ==
    { <<>>,
      <<"Revenue grew 30% in March.">>,
      <<"ERROR:", " rate in the churn column doubled.">> }

\* what generate_content / send_message hands back:
\*   raise          the call raised
\*   none           a falsy response
\*   parts          response.parts is non-empty and response.text is `text`
\*   parts_raise    response.parts is non-empty and response.text raises
\*   cand_text      no parts, and candidates[0].text is `text`
\*   cand_raise     no parts, and reading candidates[0].text raises
\*   no_cands       no parts and no candidates
Responses ==
    [kind : {"parts", "cand_text"}, text : Texts]
    \cup { [kind |-> "raise", text |-> <<"429 quota exceeded">>],
           [kind |-> "parts_raise", text |-> <<"response.text needs a text part">>],
           [kind |-> "cand_raise", text |-> <<"'Candidate' object has no attribute 'text'">>],
           [kind |-> "no_cands", text |-> <<>>],
           [kind |-> "none", text |-> <<>>] }

\* the listings an entry point may meet
EnvListings ==
    { Raise(<<"503 service unavailable">>),
      Return(<< [name |-> <<"models/", "embedding", "-001">>, has_methods |-> TRUE,
                 methods |-> {"generateContent"}] >>),
      Return(<< [name |-> <<"models/", "gemini-pro">>, has_methods |-> TRUE,
                 methods |-> {"generateContent"}] >>) }

\* the surroundings of one call: whether GOOGLE_API_KEY is set, the model
\* listing, whether GenerativeModel(...) and start_chat(...) succeed, and the
\* response of the generation call
Envs ==
    [key : BOOLEAN, listed : EnvListings, construct_ok : BOOLEAN,
     start_ok : BOOLEAN, response : Responses]

\* lines 39-47
_configure_genai(env) ==
    IF ~env.key
    THEN Raise(<<"GOOGLE_API_KEY is not set in your .env file.">>)
    ELSE Return(<<>>)

\* lines 62-64 and 119-121: the body of the first try of both entry points
InitModel(env) ==
    IF _configure_genai(env).raised THEN _configure_genai(env)
    ELSE IF _get_suitable_model(env.listed).raised THEN _get_suitable_model(env.listed)
    ELSE IF ~env.construct_ok THEN Raise(<<"GenerativeModel could not be constructed">>)
    ELSE _get_suitable_model(env.listed)

\* lines 90-99 and 151-157: the body of the second try; `unexpected` is the
\* text of the else branch
ReadResponse(response, unexpected) ==
    IF response.kind \in {"raise", "parts_raise", "cand_raise"} THEN Raise(response.text)
    ELSE IF response.kind = "parts" THEN Return(response.text)
    ELSE IF response.kind = "cand_text" /\ response.text # <<>> THEN Return(response.text)
    ELSE Return(unexpected)

\* lines 50-102; gen_calls counts the calls of model.generate_content
generate_kpi_summary(env, kpi_data_markdown) ==
    IF InitModel(env).raised
    THEN [raised |-> FALSE, exc |-> <<>>, gen_calls |-> 0,
          val |-> <<"ERROR:", " Could not initialize Generative Model for KPI summary: ">>
                  \o InitModel(env).exc]
    ELSE LET r == ReadResponse(env.response,
                     <<"AI response structure not as expected for KPI summary. Could not extract text.">>)
         IN  [raised |-> FALSE, exc |-> <<>>, gen_calls |-> 1,
              val |-> IF r.raised
                      THEN <<"ERROR:", " An error occurred while calling the Google Generative AI API for KPI summary: ">>
                           \o r.exc
                      ELSE r.val]

-----------------------------------------------------------------------------
(* ai_logic.py: chat_with_llm                                              *)

\* roles and contents of the turns a caller may hand over
CallerRoles == {"user", "assistant", "system"}
Contents == { <<"Which month was best?">>, <<"March, by revenue.">> }

\* a turn of the caller's history: a dict with the keys `keys`
CallerTurns ==
    [keys : {{"role", "content"}}, role : CallerRoles, content : Contents]
    \cup { [keys |-> {"role"}, role |-> "user", content |-> <<>>],
           [keys |-> {"content"}, role |-> "", content |-> <<"March, by revenue.">>] }

Histories == SeqsUpTo(CallerTurns, MaxHist)

Contexts == { <<"| month | revenue |">>, <<"| churn |">> }
Queries == { <<"Which month was best?">>, <<"Why?">> }

\* lines 128-136
initial_message(context_data_markdown) ==
    [role |-> "user",
     parts |-> << <<"You are a helpful Business Intelligence chatbot. [...]\n\n",
                    "--- KPI Data Context ---\n">>
                  \o context_data_markdown
                  \o <<"\n--- End KPI Data Context ---">> >>]

\* the role mapping of line 144 lost: the caller's role is passed through
ProviderRoleUnmapped(role) == role

\* line 144
ProviderRole(role) == IF role = "user" THEN "user" ELSE "model"

\* lines 139-145: the history in the provider's shape; reading a missing key
\* of a turn raises KeyError
formatted_history(chat_history) ==
    LET bad == { i \in 1..Len(chat_history) : chat_history[i].keys # {"role", "content"} }
    IN  IF bad # {}
        THEN Raise(IF "role" \in chat_history[Least(bad)].keys
                   THEN <<"KeyError: 'content'">> ELSE <<"KeyError: 'role'">>)
        ELSE Return([i \in 1..Len(chat_history) |->
                        [role |-> ProviderRole(chat_history[i].role),
                         parts |-> <<chat_history[i].content>>]])

\* a call that did not reach the provider
NotSubmitted == [started |-> FALSE, sent |-> FALSE, history |-> <<>>, message |-> <<>>]

\* lines 105-160. Besides the result: whether start_chat was reached, with
\* which history, and whether send_message was reached, with which message
chat_with_llm(env, context_data_markdown, user_query, chat_history) ==
    IF InitModel(env).raised
    THEN [raised |-> FALSE, exc |-> <<>>, submit |-> NotSubmitted,
          val |-> <<"ERROR:", " Could not initialize Generative Model for chatbot: ">>
                  \o InitModel(env).exc]
    ELSE IF formatted_history(chat_history).raised
    THEN [raised |-> TRUE, exc |-> formatted_history(chat_history).exc,
          submit |-> NotSubmitted, val |-> <<>>]
    ELSE LET history == <<initial_message(context_data_markdown)>>
                        \o formatted_history(chat_history).val
             r == ReadResponse(env.response,
                     <<"AI chatbot response structure not as expected. Could not extract text.">>)
         IN  IF ~env.start_ok
             THEN [raised |-> TRUE, exc |-> <<"start_chat: invalid history">>, val |-> <<>>,
                   submit |-> [started |-> TRUE, sent |-> FALSE, history |-> history,
                               message |-> <<>>]]
             ELSE [raised |-> FALSE, exc |-> <<>>,
                   submit |-> [started |-> TRUE, sent |-> TRUE, history |-> history,
                               message |-> user_query],
                   val |-> IF r.raised
                           THEN <<"ERROR:", " An error occurred while calling the Google Generative AI API for chatbot: ">>
                                \o r.exc
                           ELSE r.val]

-----------------------------------------------------------------------------
(* features.py: ingest_and_summarize_kpis                                  *)

\* Python's None and a present value
None == [none |-> TRUE, v |-> <<>>]
Some(x) == [none |-> FALSE, v |-> x]

\* a file name is a string of these pieces
NamePieces == {".", "txt", "csv", "CSV", "xls", "xlsx", "json"}
FileNames == SeqsUpTo(NamePieces, MaxNameLen)

\* the columns a parsed Table is made of (names are unique within a Table)
Columns ==
    { [name |-> "month", dtype |-> "object"],
      [name |-> "when", dtype |-> "datetime"],
      [name |-> "revenue", dtype |-> "number"],
      [name |-> "No numerical data", dtype |-> "number"] }

RECURSIVE ColumnSeqs(_)
\* the sequences of at most n columns with distinct names
ColumnSeqs(n) ==
    IF n = 0 THEN { <<>> }
    ELSE LET shorter == ColumnSeqs(n - 1)
             longest == { r \in shorter : Len(r) = n - 1 }
         IN  shorter \cup
             UNION { { Append(q, c) : c \in { d \in Columns :
                                               \A i \in 1..Len(q) : q[i].name # d.name } } :
                     q \in longest }

\* a DataFrame: its columns in order and its number of rows
Tables == [cols : ColumnSeqs(MaxCols), nrows : 0..MaxRows]
NoTable == [cols |-> <<>>, nrows |-> 0]
NoDataFrame == [none |-> TRUE, v |-> NoTable]

\* what the bytes of an upload are to a parser: a table, bytes that are not
\* UTF-8, or text/bytes the parser rejects
FileContents ==
    [kind : {"table"}, table : Tables]
    \cup [kind : {"not_utf8", "malformed"}, table : {NoTable}]

UploadedFiles == [name : FileNames, content : FileContents]

\* no file: what the uploader holds before an upload
NoFile == [none |-> TRUE, v |-> [name |-> <<>>, content |-> [kind |-> "malformed", table |-> NoTable]]]

\* str.lower(), piece by piece
LowerPiece(piece) == IF piece = "CSV" THEN "csv" ELSE piece
Lower(str) == [i \in 1..Len(str) |-> LowerPiece(str[i])]

\* str.split('.')[-1]: what follows the last '.', the whole string without one
LastDotSegment(str) ==
    LET dots == { i \in 1..Len(str) : str[i] = "." }
    IN  IF dots = {} THEN str
        ELSE SubSeq(str, (CHOOSE i \in dots : \A j \in dots : j <= i) + 1, Len(str))

\* str.split('.')[0]: what precedes the first '.'
FirstDotSegment(str) ==
    LET dots == { i \in 1..Len(str) : str[i] = "." }
    IN  IF dots = {} THEN str ELSE SubSeq(str, 1, Least(dots) - 1)

\* line 28
file_extension(uploaded_file) == Lower(LastDotSegment(uploaded_file.name))

\* lines 32 and 37: decode('utf-8'), then pd.read_csv / pd.read_json
ReadText(content) ==
    IF content.kind = "not_utf8"
    THEN Raise(<<"'utf-8' codec can't decode byte 0xff in position 0: invalid start byte">>)
    ELSE IF content.kind = "malformed"
    THEN Raise(<<"Error tokenizing data">>)
    ELSE Return(content.table)

\* line 34: pd.read_excel on the raw bytes
ReadExcel(content) ==
    IF content.kind = "table"
    THEN Return(content.table)
    ELSE Raise(<<"Excel file format cannot be determined">>)

\* DataFrame.empty: no rows or no columns
Empty(df) == df.nrows = 0 \/ Len(df.cols) = 0

\* line 45 with the selection widened to every non-textual column
select_dtypes_not_object(df) ==
    [cols |-> SelectSeq(df.cols, LAMBDA c : c.dtype # "object"), nrows |-> df.nrows]

\* line 45: df.select_dtypes(include=['number'])
select_dtypes_number(df) ==
    [cols |-> SelectSeq(df.cols, LAMBDA c : c.dtype = "number"), nrows |-> df.nrows]

\* lines 47-48: describe().transpose().to_markdown(): a header and one row of
\* statistics per column, labelled with the column's name
DescribeMarkdown(numeric_df) ==
    LET RECURSIVE Rows(_)
        Rows(k) == IF k = 0 THEN <<>>
                   ELSE Rows(k - 1) \o <<"| ", numeric_df.cols[k].name, " | statistics |\n">>
    IN  <<"|    | count | mean | std | min | 25% | 50% | 75% | max |\n">>
        \o Rows(Len(numeric_df.cols))

SentinelText == <<"No numerical data", " found for statistical summary.">>

\* lines 42-50 for a non-empty DataFrame
Digest(df) ==
    IF ~Empty(select_dtypes_number(df))
    THEN DescribeMarkdown(select_dtypes_number(df))
    ELSE SentinelText

IngestFailure(parser, text) ==
    [df |-> NoDataFrame, md |-> None, error |-> Some(text), parser |-> parser]

\* lines 42-59 with the early return of line 53 lost: the empty DataFrame
\* leaves together with the error
AfterParseKeepsTable(parser, parsed) ==
    IF parsed.raised
    THEN IngestFailure(parser, <<"Error ingesting or processing file: ">> \o parsed.exc)
    ELSE [df |-> [none |-> FALSE, v |-> parsed.val],
          md |-> IF Empty(parsed.val) THEN None ELSE Some(Digest(parsed.val)),
          error |-> IF Empty(parsed.val)
                    THEN Some(<<"Uploaded file is empty or contains no data.">>)
                    ELSE None,
          parser |-> parser]

\* lines 42-59, once a parser has run
AfterParse(parser, parsed) ==
    IF parsed.raised
    THEN IngestFailure(parser, <<"Error ingesting or processing file: ">> \o parsed.exc)
    ELSE IF Empty(parsed.val)
    THEN IngestFailure(parser, <<"Uploaded file is empty or contains no data.">>)
    ELSE [df |-> [none |-> FALSE, v |-> parsed.val], md |-> Some(Digest(parsed.val)),
          error |-> None, parser |-> parser]

\* lines 8-59: the tuple (df, kpi_description_markdown, error_message), and
\* the parser that was invoked
ingest_and_summarize_kpis(uploaded_file) ==
    LET ext == file_extension(uploaded_file)
    IN  IF ext = <<"csv">> THEN AfterParse("read_csv", ReadText(uploaded_file.content))
        ELSE IF ext \in {<<"xls">>, <<"xlsx">>}
            THEN AfterParse("read_excel", ReadExcel(uploaded_file.content))
        ELSE IF ext = <<"json">> THEN AfterParse("read_json", ReadText(uploaded_file.content))
        ELSE IngestFailure("none",
                <<"Unsupported file type. Please upload a CSV, Excel (.xls, .xlsx), or JSON file.">>)

-----------------------------------------------------------------------------
(* features.py: generate_report_and_insights                               *)

\* base64.b64encode(text.encode("utf-8")).decode(), piece by piece
Base64(text) == [i \in 1..Len(text) |-> "b64:" \o text[i]]

\* markdown.markdown(text, extensions=[...]): the text inside block markup
MarkdownToHtml(text) == <<"<p>">> \o text \o <<"</p>">>

\* lines 115-137: the page around the rendered summary
html_content(html_summary, download_filename_prefix) ==
    <<"<!DOCTYPE html><html lang=\"en\"><head>[...]<title>KPI Summary - ">>
    \o download_filename_prefix
    \o <<"</title><style>[...]</style></head><body>">>
    \o html_summary
    \o <<"</body></html>">>

\* the tuple (summary, download_link, success, error, table) of every return,
\* with the calls of generate_content made on the way and what
\* generate_kpi_summary returned, if it was called
ReportResult(summary, link, success, error, df, calls, narrative) ==
    [summary |-> summary, download_link |-> link, success |-> success,
     error |-> error, df |-> df, gen_calls |-> calls, narrative |-> narrative]

\* line 101 with the Table dropped on the way out
NarrationFailedDropsTable(summary_text, table, calls, narrative) ==
    ReportResult(<<>>, None, FALSE, Some(summary_text), NoDataFrame, calls, narrative)

\* lines 100-101: the return taken for an empty or error-prefixed narrative
NarrationFailed(summary_text, table, calls, narrative) ==
    ReportResult(<<>>, None, FALSE, Some(summary_text), table, calls, narrative)

\* the surroundings of a call of generate_report_and_insights: those of
\* generate_kpi_summary, and whether markdown.markdown returns (line 114)
WithMarkdown(env, ok) ==
    [key |-> env.key, listed |-> env.listed, construct_ok |-> env.construct_ok,
     start_ok |-> env.start_ok, response |-> env.response, markdown_ok |-> ok]

\* lines 147-148: the return for an exception raised inside the try block
Unexpected(e, table, calls, narrative) ==
    ReportResult(<<>>, None, FALSE,
        Some(<<"An unexpected error occurred during report processing: ">> \o e),
        table, calls, narrative)

\* lines 103-145 with every other format packaged as markdown
PackageDefaultsToMarkdown(uploaded_file, output_format, summary_text, table, calls, narrative, markdown_ok) ==
    ReportResult(summary_text,
        Some(<<"data:", "text/markdown", ";base64,">> \o Base64(summary_text)),
        TRUE, None, table, calls, narrative)

\* lines 103-145: the download artifact for a narrative; markdown.markdown
\* raises when markdown_ok is false
Package(uploaded_file, output_format, summary_text, table, calls, narrative, markdown_ok) ==
    LET download_filename_prefix == FirstDotSegment(uploaded_file.name)
    IN  IF output_format = "markdown"
        THEN ReportResult(summary_text,
                 Some(<<"data:", "text/markdown", ";base64,">> \o Base64(summary_text)),
                 TRUE, None, table, calls, narrative)
        ELSE IF output_format = "html"
        THEN IF markdown_ok
             THEN ReportResult(summary_text,
                      Some(<<"data:", "text/html", ";base64,">>
                           \o Base64(html_content(MarkdownToHtml(summary_text),
                                                  download_filename_prefix))),
                      TRUE, None, table, calls, narrative)
             ELSE Unexpected(<<"markdown.markdown failed">>, table, calls, narrative)
        ELSE ReportResult(summary_text, None, FALSE,
                 Some(<<"Unsupported output format for download.">>),
                 table, calls, narrative)

\* lines 94-145 without the test of line 100: every summary text is packaged
AfterSummarySkipsCheck(uploaded_file, output_format, summary_text, table, calls, narrative, markdown_ok) ==
    Package(uploaded_file, output_format, summary_text, table, calls, narrative,
            markdown_ok)

\* lines 94-145, once the summary text is known
AfterSummary(uploaded_file, output_format, summary_text, table, calls, narrative, markdown_ok) ==
    IF summary_text = <<>> \/ StartsWith(summary_text, "ERROR:")
    THEN NarrationFailed(summary_text, table, calls, narrative)
    ELSE Package(uploaded_file, output_format, summary_text, table, calls, narrative,
                 markdown_ok)

\* lines 62-148; `file` is None or the upload, `env` the surroundings of the
\* call
generate_report_and_insights(file, output_format, env) ==
    IF file.none
    THEN ReportResult(<<>>, None, FALSE,
             Some(<<"Please upload a report file to get started.">>), NoDataFrame, 0, None)
    ELSE LET ingested == ingest_and_summarize_kpis(file.v)
             summary == generate_kpi_summary(env, ingested.md.v)
         IN  IF ~ingested.error.none /\ ingested.error.v # <<>>
             THEN ReportResult(<<>>, None, FALSE,
                      Some(<<"Data Ingestion Error: ">> \o ingested.error.v),
                      NoDataFrame, 0, None)
             ELSE IF ingested.df.none \/ Empty(ingested.df.v)
             THEN ReportResult(<<"No data was successfully ingested or the file is empty.">>,
                      None, TRUE, None, NoDataFrame, 0, None)
             ELSE IF ingested.md.none \/ Contains(ingested.md.v, "No numerical data")
             THEN AfterSummary(file.v, output_format,
                      <<"No numerical KPIs found in the report to generate a detailed summary. Try uploading a report with numeric columns.">>,
                      ingested.df, 0, None, env.markdown_ok)
             ELSE AfterSummary(file.v, output_format, summary.val, ingested.df,
                      summary.gen_calls, Some(summary.val), env.markdown_ok)

-----------------------------------------------------------------------------
(* Idle values of the variables a specification does not use               *)

NoCall == [fn |-> "none"]
IdleSel == [done |-> FALSE, out |-> Raise(<<>>)]

\* main.py lines 63-69: a fresh session, nothing uploaded, nothing rendered
NoChat == [count |-> 0, ran |-> FALSE, raised |-> FALSE, query |-> <<>>, submit |-> NotSubmitted]

SessionInit ==
    /\ messages = <<>>
    /\ df_kpis = NoDataFrame
    /\ kpi_summary_text = <<>>
    /\ uploader = NoFile
    /\ page = [chat_input |-> FALSE, prompt |-> None]
    /\ chatLog = NoChat

-----------------------------------------------------------------------------
(* SpecSel: model selection over every listing                             *)

InitSel ==
    /\ listing \in ListOutcomes
    /\ selected = IdleSel
    /\ aiCall = NoCall
    /\ ingestCall = NoCall
    /\ reportCall = NoCall
    /\ SessionInit

GetSuitableModel ==
    /\ ~selected.done
    /\ selected' = [done |-> TRUE, out |-> _get_suitable_model(listing)]
    /\ UNCHANGED <<listing, aiCall, ingestCall, reportCall, sessionVars>>

NextSel == GetSuitableModel

SpecSel == InitSel /\ [][NextSel]_vars

-----------------------------------------------------------------------------
(* SpecAI: one call of an entry point of ai_logic.py, in any surroundings  *)

Digests == { <<"| revenue | 3 | 110000 |">>, <<"No numerical data", " found for statistical summary.">> }

InitAI ==
    /\ listing = Raise(<<>>)
    /\ selected = IdleSel
    /\ aiCall = NoCall
    /\ ingestCall = NoCall
    /\ reportCall = NoCall
    /\ SessionInit

CallGenerateKpiSummary ==
    /\ aiCall.fn = "none"
    /\ \E env \in Envs, md \in Digests :
         aiCall' = [fn |-> "generate_kpi_summary", env |-> env, context |-> md,
                    query |-> <<>>, history |-> <<>>,
                    out |-> generate_kpi_summary(env, md)]
    /\ UNCHANGED <<listing, selected, ingestCall, reportCall, sessionVars>>

CallChatWithLlm ==
    /\ aiCall.fn = "none"
    /\ \E env \in Envs, x \in Contexts, q \in Queries, h \in Histories :
         aiCall' = [fn |-> "chat_with_llm", env |-> env, context |-> x,
                    query |-> q, history |-> h,
                    out |-> chat_with_llm(env, x, q, h)]
    /\ UNCHANGED <<listing, selected, ingestCall, reportCall, sessionVars>>

NextAI == CallGenerateKpiSummary \/ CallChatWithLlm

SpecAI == InitAI /\ [][NextAI]_vars

-----------------------------------------------------------------------------
(* SpecIngest: one call of ingest_and_summarize_kpis on any upload         *)

InitIngest == InitAI

Ingest ==
    /\ ingestCall.fn = "none"
    /\ \E f \in UploadedFiles :
         ingestCall' = [fn |-> "ingest_and_summarize_kpis", file |-> f,
                        out |-> ingest_and_summarize_kpis(f)]
    /\ UNCHANGED <<listing, selected, aiCall, reportCall, sessionVars>>

NextIngest == Ingest

SpecIngest == InitIngest /\ [][NextIngest]_vars

-----------------------------------------------------------------------------
(* SpecReport: one analysis run on any upload, format and surroundings      *)

ReportNames == { n \in FileNames : n \in { <<"txt", ".", "csv">>, <<"txt", ".", "xlsx">>,
                                            <<"txt", ".", "json">>, <<"txt">> } }
ReportFiles == { NoFile } \cup { Some(f) : f \in [name : ReportNames, content : FileContents] }
OutputFormats == {"markdown", "html", "pdf", "Markdown"}
ReportEnvs == { WithMarkdown(e, ok) : e \in { d \in Envs : d.start_ok }, ok \in BOOLEAN }

InitReport == InitAI

GenerateReportAndInsights ==
    /\ reportCall.fn = "none"
    /\ \E f \in ReportFiles, fmt \in OutputFormats, env \in ReportEnvs :
         reportCall' = [fn |-> "generate_report_and_insights", file |-> f,
                        output_format |-> fmt, env |-> env,
                        out |-> generate_report_and_insights(f, fmt, env)]
    /\ UNCHANGED <<listing, selected, aiCall, ingestCall, sessionVars>>

NextReport == GenerateReportAndInsights

SpecReport == InitReport /\ [][NextReport]_vars

-----------------------------------------------------------------------------
(* main.py: the script of one session                                      *)

\* the uploads of a session: the uploader admits csv, xls, xlsx and json
SessionFiles ==
    { Some([name |-> n, content |-> c]) :
        n \in { <<"txt", ".", "csv">> },
        c \in { [kind |-> "table",
                 table |-> [cols |-> << [name |-> "month", dtype |-> "object"],
                                        [name |-> "revenue", dtype |-> "number"] >>,
                            nrows |-> 1]],
                [kind |-> "table",
                 table |-> [cols |-> << [name |-> "month", dtype |-> "object"] >>,
                            nrows |-> 1]],
                [kind |-> "malformed", table |-> NoTable] } }

\* the responses of the remote model within a session
SessionResponses ==
    { [kind |-> "parts", text |-> <<"Revenue grew 30% in March.">>],
      [kind |-> "raise", text |-> <<"429 quota exceeded">>],
      [kind |-> "none", text |-> <<>>] }

\* the surroundings of a script run
SessionEnvs ==
    { WithMarkdown(e, ok) :
        e \in { d \in Envs :
                  /\ d.key
                  /\ d.construct_ok
                  /\ d.listed \in { Raise(<<"503 service unavailable">>),
                                    Return(<< [name |-> <<"models/", "gemini-pro">>,
                                               has_methods |-> TRUE,
                                               methods |-> {"generateContent"}] >>) }
                  /\ d.response \in SessionResponses },
        ok \in BOOLEAN }

\* the text the user types as the k-th question of the session
Question(k) == <<"question ", ToString(k)>>

\* a turn as main() appends it to st.session_state.messages
Turn(role, content) == [keys |-> {"role", "content"}, role |-> role, content |-> content]

\* line 95: the column name mentions a time period
IsTimeName(name) == name \in {"month"}

\* lines 84-107: the chart preparation works on the ingested DataFrame itself:
\* time-named columns are converted to datetime until one has a valid value,
\* and without one a column 'index' is added
PrepareChart(df, dates_parse) ==
    LET timed == { i \in 1..Len(df.cols) : IsTimeName(df.cols[i].name) }
        upto == IF timed = {} THEN 0
                ELSE IF dates_parse THEN Least(timed)
                ELSE Len(df.cols)
        converted == [i \in 1..Len(df.cols) |->
                        IF i \in timed /\ i <= upto
                        THEN [name |-> df.cols[i].name, dtype |-> "datetime"]
                        ELSE df.cols[i]]
    IN  IF select_dtypes_number(df).cols = <<>> THEN df
        ELSE IF timed # {} /\ dates_parse THEN [cols |-> converted, nrows |-> df.nrows]
        ELSE [cols |-> Append(converted, [name |-> "index", dtype |-> "number"]),
              nrows |-> df.nrows]

\* line 153: df_kpis.to_markdown(index=False)
TableMarkdown(df) ==
    LET RECURSIVE Header(_)
        Header(k) == IF k = 0 THEN <<"|">> ELSE Header(k - 1) \o <<df.cols[k].name, "|">>
    IN  Header(Len(df.cols)) \o <<"\n", ToString(df.nrows) \o " rows of cells">>

\* lines 146-161: the chat step for a submitted prompt; an exception of
\* chat_with_llm ends the script run after the user turn was appended
ChatStep(env, prompt, table) ==
    LET with_prompt == Append(messages, Turn("user", prompt))
        context_for_chat == IF ~table.none /\ ~Empty(table.v)
                            THEN TableMarkdown(table.v) ELSE kpi_summary_text'
        reply == chat_with_llm(env, context_for_chat, prompt, with_prompt)
    IN  /\ messages' = IF reply.raised THEN with_prompt
                       ELSE Append(with_prompt, Turn("assistant", reply.val))
        /\ chatLog' = [count |-> chatLog.count + 1, ran |-> TRUE, raised |-> reply.raised,
                       query |-> prompt, submit |-> reply.submit]

\* lines 71-180 with the history started afresh by an analysis that has no
\* chat step
AnalyzeResetsHistory(output_format, prompt, env, chat_response, dates_parse) ==
    LET r == generate_report_and_insights(uploader, output_format, env)
        charted == IF r.success /\ ~r.df.none /\ ~Empty(r.df.v)
                   THEN [none |-> FALSE, v |-> PrepareChart(r.df.v, dates_parse)]
                   ELSE r.df
    IN  /\ df_kpis' = charted
        /\ kpi_summary_text' = r.summary
        /\ page' = [chat_input |-> r.success, prompt |-> prompt]
        /\ IF r.success /\ ~prompt.none
           THEN ChatStep([env EXCEPT !.response = chat_response], prompt.v, charted)
           ELSE messages' = <<>> /\ UNCHANGED chatLog

\* lines 71-180: the branch of a script run that analyses the upload; the
\* remote model answers the chat message with chat_response
Analyze(output_format, prompt, env, chat_response, dates_parse) ==
    LET r == generate_report_and_insights(uploader, output_format, env)
        charted == IF r.success /\ ~r.df.none /\ ~Empty(r.df.v)
                   THEN [none |-> FALSE, v |-> PrepareChart(r.df.v, dates_parse)]
                   ELSE r.df
    IN  /\ df_kpis' = charted
        /\ kpi_summary_text' = r.summary
        /\ page' = [chat_input |-> r.success, prompt |-> prompt]
        /\ IF r.success /\ ~prompt.none
           THEN ChatStep([env EXCEPT !.response = chat_response], prompt.v, charted)
           ELSE UNCHANGED <<messages, chatLog>>

\* lines 59-200: one run of the script with GOOGLE_API_KEY set, for the values
\* the widgets return in it
ScriptRun(output_format, process_button, prompt, env, chat_response, dates_parse) ==
    /\ IF ~uploader.none /\ process_button
       THEN Analyze(output_format, prompt, env, chat_response, dates_parse)
       ELSE /\ page' = [chat_input |-> FALSE, prompt |-> prompt]
            /\ UNCHANGED <<messages, df_kpis, kpi_summary_text, chatLog>>
    /\ UNCHANGED <<uploader, callVars>>

-----------------------------------------------------------------------------
(* Spec: a session of main(); each script run reads any widget values      *)

Init ==
    /\ listing = Raise(<<>>)
    /\ selected = IdleSel
    /\ aiCall = NoCall
    /\ ingestCall = NoCall
    /\ reportCall = NoCall
    /\ SessionInit

\* the user picks or removes a file; the script run this triggers finds the
\* button unpressed
Upload ==
    /\ \E f \in SessionFiles \cup {NoFile} : uploader' = f
    /\ page' = [chat_input |-> FALSE, prompt |-> None]
    /\ UNCHANGED <<messages, df_kpis, kpi_summary_text, chatLog, callVars>>

\* lines 39-43: a script run without GOOGLE_API_KEY stops before the widgets
StoppedRun ==
    /\ page' = [chat_input |-> FALSE, prompt |-> None]
    /\ UNCHANGED <<messages, df_kpis, kpi_summary_text, uploader, chatLog, callVars>>

\* a script run in which neither the button nor the chat input reads true
Rerun ==
    \E fmt \in {"markdown", "html"}, env \in SessionEnvs :
        ScriptRun(fmt, FALSE, None, env, env.response, TRUE)

\* a script run in which 'Analyze Report' reads true
AnalyzeRun ==
    \E fmt \in {"markdown", "html"}, env \in SessionEnvs, dates_parse \in BOOLEAN :
        ScriptRun(fmt, TRUE, None, env, env.response, dates_parse)

\* a script run in which the button reads true and the chat input returns
\* the next question
ChatRun ==
    /\ chatLog.count < MaxChats
    /\ \E fmt \in {"markdown", "html"}, env \in SessionEnvs,
          chat_response \in SessionResponses, dates_parse \in BOOLEAN :
         ScriptRun(fmt, TRUE, Some(Question(chatLog.count + 1)), env, chat_response,
                   dates_parse)

Next == Upload \/ StoppedRun \/ Rerun \/ AnalyzeRun \/ ChatRun

Spec == Init /\ [][Next]_vars

-----------------------------------------------------------------------------
(* SpecRerun: a session of main() under Streamlit's rerun model: the button *)
(* reads true only in the script run its click triggers, the chat input     *)
(* returns text only in the script run its submission triggers              *)

InitRerun == Init

\* the files a user may pick: under a CSV name, bytes no parser reads or a
\* Table of at most one column
RerunFiles ==
    { Some(f) : f \in [name : {<<"txt", ".", "csv">>},
                       content : { c \in FileContents :
                                     c.kind = "table" => Len(c.table.cols) <= 1 }] }

\* the user picks or removes a file; the script run this triggers finds the
\* button unpressed and the chat input without text
PickFile ==
    /\ \E f \in RerunFiles \cup {NoFile} : uploader' = f
    /\ page' = [chat_input |-> FALSE, prompt |-> None]
    /\ UNCHANGED <<messages, df_kpis, kpi_summary_text, chatLog, callVars>>

\* the user submits a question in the chat input the last script run
\* rendered; in the script run this triggers the button reads false
SubmitChat ==
    /\ page.chat_input
    /\ \E fmt \in {"markdown", "html"}, env \in SessionEnvs,
          chat_response \in SessionResponses :
         ScriptRun(fmt, FALSE, Some(Question(chatLog.count + 1)), env, chat_response, TRUE)

NextRerun == PickFile \/ StoppedRun \/ Rerun \/ AnalyzeRun \/ SubmitChat

SpecRerun == InitRerun /\ [][NextRerun]_vars

-----------------------------------------------------------------------------
(* C7: the choice of _get_suitable_model                                    *)

PriorityList ==
    << <<"models/", "gemini-1.5-flash-latest">>,
       <<"models/", "gemini-1.0-pro">>,
       <<"models/", "gemini-pro">> >>

\* the positions of the listing that declare generateContent
GenPositions(l) ==
    { i \in 1..Len(l) : l[i].has_methods /\ "generateContent" \in l[i].methods }

\* the priority entries that are listed with generateContent
ListedPriorities(l) ==
    { p \in 1..Len(PriorityList) : \E i \in GenPositions(l) : l[i].name = PriorityList[p] }

\* the generateContent positions whose name has neither 'embedding' nor 'aqa'
TextPositions(l) ==
    { i \in GenPositions(l) :
        \A k \in 1..Len(l[i].name) : l[i].name[k] \notin {"embedding", "aqa"} }

WithoutPrefix(name) == IF name[1] = "models/" THEN Tail(name) ELSE name

\* C7: _get_suitable_model returns the first listed entry of the priority list
\* that declares generateContent, otherwise the first listed generateContent
\* model named for neither embeddings nor aqa, without the 'models/' prefix;
\* what it returns always declares generateContent; it raises exactly when no
\* listed model qualifies or the listing itself failed.
C7_DeterministicModelChoice ==
    selected.done =>
        IF listing.raised
        THEN selected.out.raised
        ELSE LET l == listing.val
             IN  /\ selected.out.raised <=> (ListedPriorities(l) = {} /\ TextPositions(l) = {})
                 /\ ~selected.out.raised =>
                      /\ \E i \in GenPositions(l) : WithoutPrefix(l[i].name) = selected.out.val
                      /\ selected.out.val =
                           IF ListedPriorities(l) # {}
                           THEN WithoutPrefix(PriorityList[Least(ListedPriorities(l))])
                           ELSE WithoutPrefix(l[Least(TextPositions(l))].name)

\* the fallback chose the second generateContent model, past an embedding model
\* that also declares generateContent and a priority model that does not
C7_Witness ==
    /\ selected.done
    /\ ~listing.raised
    /\ Len(listing.val) = 3
    /\ listing.val[1].name = <<"models/", "gemini-pro">>
    /\ ~listing.val[1].has_methods
    /\ listing.val[2].name = <<"models/", "embedding", "-001">>
    /\ "generateContent" \in listing.val[2].methods
    /\ selected.out = Return(<<"gemini-2.0-flash">>)

-----------------------------------------------------------------------------
(* C1, C3, C4: the entry points of ai_logic.py                             *)

\* `inner` occurs in `outer` as a run of adjacent pieces
Embeds(outer, inner) ==
    \E k \in 0..(Len(outer) - Len(inner)) :
        \A j \in 1..Len(inner) : outer[k + j] = inner[j]

\* the surroundings in which the model cannot be initialised: no credential,
\* no listing, no listed model that qualifies, or no model object
InitFails(env) ==
    \/ ~env.key
    \/ env.listed.raised
    \/ (ListedPriorities(env.listed.val) = {} /\ TextPositions(env.listed.val) = {})
    \/ ~env.construct_ok

\* the response carries a text: through its parts or its first candidate
HasText(response) ==
    \/ response.kind = "parts"
    \/ response.kind = "cand_text" /\ response.text # <<>>

\* C1: whenever chat_with_llm sends the query, the provider has received the
\* n + 1 turns [synthesized user turn embedding the context verbatim] followed
\* by the n turns of the history in order, contents unchanged, role 'user' kept
\* and 'assistant' mapped to 'model', and then the query itself as the new
\* message (n + 2 in all); and it sends whenever it neither raised nor failed
\* to initialise the model.
C1_ProviderSequence ==
    aiCall.fn = "chat_with_llm" =>
        LET sub == aiCall.out.submit
            H == aiCall.history
        IN  /\ (~aiCall.out.raised /\ ~InitFails(aiCall.env)) => sub.sent
            /\ sub.sent =>
                 /\ Len(sub.history) + 1 = Len(H) + 2
                 /\ sub.history[1].role = "user"
                 /\ Len(sub.history[1].parts) = 1
                 /\ Embeds(sub.history[1].parts[1], aiCall.context)
                 /\ \A i \in 1..Len(H) :
                      /\ sub.history[i + 1].parts = <<H[i].content>>
                      /\ H[i].role = "user" => sub.history[i + 1].role = "user"
                      /\ H[i].role = "assistant" => sub.history[i + 1].role = "model"
                 /\ sub.message = aiCall.query

\* a query sent after a history of one user turn and one assistant turn
C1_Witness ==
    /\ aiCall.fn = "chat_with_llm"
    /\ aiCall.out.submit.sent
    /\ Len(aiCall.history) = 2
    /\ aiCall.history[1].role = "user"
    /\ aiCall.history[2].role = "assistant"
    /\ Len(aiCall.out.submit.history) = 3
    /\ aiCall.out.submit.history[3].role = "model"

\* C3: generate_kpi_summary never raises; its result starts with 'ERROR:'
\* whenever credential loading, model selection, model construction or the
\* generation call failed, a response without extractable text included;
\* when the call succeeds the result is the generated text.
C3_SummaryErrorPrefix ==
    aiCall.fn = "generate_kpi_summary" =>
        /\ ~aiCall.out.raised
        /\ (InitFails(aiCall.env) \/ ~HasText(aiCall.env.response))
              => StartsWith(aiCall.out.val, "ERROR:")
        /\ (~InitFails(aiCall.env) /\ HasText(aiCall.env.response))
              => aiCall.out.val = aiCall.env.response.text

\* C4: chat_with_llm never raises; for every history, its result starts with
\* 'ERROR:' whenever credential loading, model selection, start_chat or
\* send_message failed, and is the reply text otherwise.
C4_ChatNeverRaises ==
    aiCall.fn = "chat_with_llm" =>
        /\ ~aiCall.out.raised
        /\ (InitFails(aiCall.env) \/ ~aiCall.env.start_ok \/ aiCall.env.response.kind = "raise")
              => StartsWith(aiCall.out.val, "ERROR:")
        /\ (~InitFails(aiCall.env) /\ aiCall.env.start_ok /\ HasText(aiCall.env.response))
              => aiCall.out.val = aiCall.env.response.text

-----------------------------------------------------------------------------
(* C5, C6, C8: ingestion and the digest                                    *)

UnsupportedText ==
    <<"Unsupported file type. Please upload a CSV, Excel (.xls, .xlsx), or JSON file.">>
EmptyText == <<"Uploaded file is empty or contains no data.">>

HasDot(name) == \E i \in 1..Len(name) : name[i] = "."

\* the text after the last '.' of a name that has one, in lower case
SuffixAfterLastDot(name) ==
    LET k == CHOOSE i \in 1..Len(name) :
                 name[i] = "." /\ \A j \in (i + 1)..Len(name) : name[j] # "."
    IN  [i \in 1..(Len(name) - k) |-> IF name[k + i] = "CSV" THEN "csv" ELSE name[k + i]]

ParserOfSuffix(suffix) ==
    IF suffix = <<"csv">> THEN "read_csv"
    ELSE IF suffix = <<"xls">> \/ suffix = <<"xlsx">> THEN "read_excel"
    ELSE IF suffix = <<"json">> THEN "read_json"
    ELSE "none"

\* C5: the parser is chosen by the lowercased text after the last '.' of the
\* file name; every other name, the names without a '.' among them, gets the
\* unsupported-file-type error, no Table, no digest, and no parser is invoked.
C5_DispatchOnSuffix ==
    ingestCall.fn = "ingest_and_summarize_kpis" =>
        LET name == ingestCall.file.name
            out == ingestCall.out
            parser == IF HasDot(name) THEN ParserOfSuffix(SuffixAfterLastDot(name))
                      ELSE "none"
        IN  /\ out.parser = parser
            /\ parser = "none" =>
                 /\ out.df.none
                 /\ out.md.none
                 /\ ~out.error.none
                 /\ out.error.v = UnsupportedText

\* C6: a result is (non-empty Table, digest, no error) or (no Table, no
\* digest, error); a parse of zero rows gives the empty-dataset error; a
\* parser or decoding exception gives the ingestion error followed by its cause.
C6_FailFast ==
    ingestCall.fn = "ingest_and_summarize_kpis" =>
        LET out == ingestCall.out
            content == ingestCall.file.content
        IN  /\ \/ /\ ~out.df.none
                  /\ out.df.v = content.table
                  /\ out.df.v.nrows > 0
                  /\ Len(out.df.v.cols) > 0
                  /\ ~out.md.none
                  /\ out.error.none
               \/ /\ out.df.none
                  /\ out.md.none
                  /\ ~out.error.none
            /\ (out.parser # "none" /\ content.kind = "table" /\ content.table.nrows = 0)
                 => (~out.error.none /\ out.error.v = EmptyText)
            /\ (out.parser # "none" /\ content.kind # "table")
                 => /\ ~out.error.none
                    /\ Len(out.error.v) = 2
                    /\ out.error.v[1] = "Error ingesting or processing file: "
                    /\ out.error.v[2] \in
                         { "'utf-8' codec can't decode byte 0xff in position 0: invalid start byte",
                           "Error tokenizing data",
                           "Excel file format cannot be determined" }
                    /\ (content.kind = "not_utf8" /\ out.parser # "read_excel")
                         => out.error.v[2] =
                            "'utf-8' codec can't decode byte 0xff in position 0: invalid start byte"

\* a JSON upload that parses to columns without rows was refused as empty
C6_Witness ==
    /\ ingestCall.fn = "ingest_and_summarize_kpis"
    /\ ingestCall.out.parser = "read_json"
    /\ ingestCall.file.content.kind = "table"
    /\ Len(ingestCall.file.content.table.cols) = 2
    /\ ingestCall.file.content.table.nrows = 0
    /\ ingestCall.out.df.none
    /\ ingestCall.out.error.v = EmptyText

RECURSIVE NumericNames(_)
\* the names of the numeric columns, in the Table's column order
NumericNames(cols) ==
    IF cols = <<>> THEN <<>>
    ELSE IF Head(cols).dtype = "number"
         THEN <<Head(cols).name>> \o NumericNames(Tail(cols))
         ELSE NumericNames(Tail(cols))

\* C8: for a non-empty Table the digest is the 'no numeric data' sentinel
\* exactly when the Table has no numeric column; otherwise it is a header
\* followed by one row per numeric column, in column order, so never a
\* statistics table without rows.
C8_DigestRows ==
    (ingestCall.fn = "ingest_and_summarize_kpis" /\ ~ingestCall.out.df.none) =>
        LET md == ingestCall.out.md.v
            numeric == NumericNames(ingestCall.out.df.v.cols)
        IN  /\ md = SentinelText <=> numeric = <<>>
            /\ md # SentinelText =>
                 /\ Len(md) > 1
                 /\ Len(md) = 1 + 3 * Len(numeric)
                 /\ md[1] = "|    | count | mean | std | min | 25% | 50% | 75% | max |\n"
                 /\ \A k \in 1..Len(numeric) : md[3 * k] = numeric[k]

\* a Table of a datetime column and a numeric column digested to one row
C8_Witness ==
    /\ ingestCall.fn = "ingest_and_summarize_kpis"
    /\ ~ingestCall.out.df.none
    /\ Len(ingestCall.out.df.v.cols) = 2
    /\ ingestCall.out.df.v.cols[1].dtype = "datetime"
    /\ ingestCall.out.df.v.cols[2].name = "revenue"
    /\ Len(ingestCall.out.md.v) = 4
    /\ ingestCall.out.md.v[3] = "revenue"

-----------------------------------------------------------------------------
(* C9, C10: one analysis run                                               *)

\* the ingestion of the run's file, when there is one
IngestionOf(call) == ingest_and_summarize_kpis(call.file.v)

\* C9: an analysis run makes at most one generation call: exactly one when
\* ingestion succeeded, the Table has a numeric column and the model was
\* initialised; none when there is no file, ingestion failed or the digest is
\* the 'no numeric data' sentinel.
C9_OneGenerationCall ==
    reportCall.fn = "generate_report_and_insights" =>
        LET out == reportCall.out
            ingested == IngestionOf(reportCall)
        IN  /\ out.gen_calls <= 1
            /\ (/\ ~reportCall.file.none
                /\ ingested.error.none
                /\ NumericNames(ingested.df.v.cols) # <<>>
                /\ ~InitFails(reportCall.env)) => out.gen_calls = 1
            /\ (\/ reportCall.file.none
                \/ ~ingested.error.none
                \/ ingested.md.v = SentinelText) => out.gen_calls = 0

\* C10: when, after a successful ingestion, generate_kpi_summary returns an
\* empty or 'ERROR:'-prefixed string, the run returns success = False, no
\* download link, that string as the error, and the ingested Table.
C10_TableSurvivesNarrationFailure ==
    (/\ reportCall.fn = "generate_report_and_insights"
     /\ ~reportCall.out.narrative.none
     /\ \/ reportCall.out.narrative.v = <<>>
        \/ reportCall.out.narrative.v[1] = "ERROR:") =>
        LET out == reportCall.out
        IN  /\ ~out.success
            /\ out.download_link.none
            /\ ~out.error.none
            /\ out.error.v = out.narrative.v
            /\ ~out.df.none
            /\ out.df.v = reportCall.file.v.content.table
            /\ out.df.v.nrows > 0
            /\ IngestionOf(reportCall).error.none

\* the generation call raised after a CSV with a numeric column was ingested
C10_Witness ==
    /\ reportCall.fn = "generate_report_and_insights"
    /\ ~reportCall.file.none
    /\ reportCall.env.response.kind = "raise"
    /\ reportCall.out.gen_calls = 1
    /\ ~reportCall.out.narrative.none
    /\ StartsWith(reportCall.out.narrative.v, "ERROR:")
    /\ ~reportCall.out.success
    /\ ~reportCall.out.df.none
    /\ Len(reportCall.out.df.v.cols) = 2

-----------------------------------------------------------------------------
(* C2: the sequences a session of main() submits                           *)

\* what reached the provider in the last chat step: the history given to
\* start_chat followed by the new message
ProviderSequence ==
    chatLog.submit.history \o <<[role |-> "user", parts |-> <<chatLog.query>>]>>

\* C2: the k-th query of a session of main() reaches the provider in a
\* sequence of 2k turns (1 synthesized, 2(k-1) prior, 1 new) in which the
\* query occurs once and the prior turns followed by the query alternate
\* user, model, ..., user.
C2_SessionSequence ==
    (chatLog.ran /\ chatLog.submit.sent) =>
        /\ Len(ProviderSequence) = 2 * chatLog.count
        /\ Cardinality({ i \in 1..Len(ProviderSequence) :
                           ProviderSequence[i].parts = <<chatLog.query>> }) = 1
        /\ \A i \in 2..Len(ProviderSequence) :
             ProviderSequence[i].role = IF i % 2 = 0 THEN "user" ELSE "model"

-----------------------------------------------------------------------------
(* C11: the download artifact of an analysis run                            *)

\* the run reached line 103: ingestion succeeded and the summary text is
\* neither empty nor error-prefixed
ReachedPackaging(call) ==
    /\ ~call.file.none
    /\ IngestionOf(call).error.none
    /\ \/ call.out.narrative.none
       \/ /\ call.out.narrative.v # <<>>
          /\ call.out.narrative.v[1] # "ERROR:"

\* the summary text the run holds at line 103: what generate_kpi_summary
\* returned, or the text of line 95 when it was not called
SummaryAtPackaging(call) ==
    IF call.out.narrative.none
    THEN <<"No numerical KPIs found in the report to generate a detailed summary. Try uploading a report with numeric columns.">>
    ELSE call.out.narrative.v

\* the MIME type of a link 'data:<type>;base64,<content>'
MimeType(link) == IF Len(link) >= 3 /\ link[1] = "data:" /\ link[3] = ";base64," THEN link[2] ELSE ""

\* C11: for every output format other than 'markdown' and 'html' the run
\* fails and produces no download link; when it got as far as the download
\* step, the error is the unsupported-format text and the summary text and
\* the ingested Table are still returned; for 'markdown' the link has MIME
\* type text/markdown and for 'html', rendered without exception, text/html.
C11_UnsupportedFormat ==
    reportCall.fn = "generate_report_and_insights" =>
        LET out == reportCall.out
            fmt == reportCall.output_format
        IN  /\ fmt \notin {"markdown", "html"} => (~out.success /\ out.download_link.none)
            /\ ReachedPackaging(reportCall) =>
                 /\ fmt \notin {"markdown", "html"} =>
                      /\ ~out.error.none
                      /\ out.error.v = <<"Unsupported output format for download.">>
                      /\ out.summary = SummaryAtPackaging(reportCall)
                      /\ ~out.df.none
                      /\ out.df.v = reportCall.file.v.content.table
                 /\ fmt = "markdown" =>
                      /\ out.success
                      /\ ~out.download_link.none
                      /\ MimeType(out.download_link.v) = "text/markdown"
                 /\ (fmt = "html" /\ reportCall.env.markdown_ok) =>
                      /\ out.success
                      /\ ~out.download_link.none
                      /\ MimeType(out.download_link.v) = "text/html"

\* a narrated two-column Table was asked for as 'pdf': no link, the
\* unsupported-format error, the narrative and the Table
C11_Witness ==
    /\ reportCall.fn = "generate_report_and_insights"
    /\ reportCall.output_format = "pdf"
    /\ reportCall.out.gen_calls = 1
    /\ ~reportCall.out.narrative.none
    /\ reportCall.out.narrative.v # <<>>
    /\ reportCall.out.summary = reportCall.out.narrative.v
    /\ ~reportCall.out.error.none
    /\ reportCall.out.error.v = <<"Unsupported output format for download.">>
    /\ ~reportCall.out.df.none
    /\ Len(reportCall.out.df.v.cols) = 2

-----------------------------------------------------------------------------
(* C14: the shape of every result of generate_report_and_insights           *)

\* C14: in every result, success = True comes with error None, a download
\* link, a summary that is neither empty nor 'ERROR:'-prefixed and a non-empty
\* Table; success = False comes with an error string (empty exactly when the
\* narrative was empty) and no download link; the return of line 92, success
\* without link and Table, does not occur.
C14_ResultShape ==
    reportCall.fn = "generate_report_and_insights" =>
        LET out == reportCall.out
        IN  /\ out.success =>
                 /\ out.error.none
                 /\ ~out.download_link.none
                 /\ out.download_link.v # <<>>
                 /\ out.summary # <<>>
                 /\ out.summary[1] # "ERROR:"
                 /\ ~out.df.none
                 /\ ~Empty(out.df.v)
            /\ ~out.success =>
                 /\ ~out.error.none
                 /\ out.download_link.none
                 /\ out.error.v = <<>> <=> (~out.narrative.none /\ out.narrative.v = <<>>)
            /\ ~(out.success /\ out.download_link.none /\ out.df.none)
            /\ out.summary # <<"No data was successfully ingested or the file is empty.">>

\* a file that parses to an empty Table was analysed: the run failed with the
\* ingestion error instead of taking the return of line 92
C14_Witness ==
    /\ reportCall.fn = "generate_report_and_insights"
    /\ ~reportCall.file.none
    /\ reportCall.file.v.content.kind = "table"
    /\ Empty(reportCall.file.v.content.table)
    /\ reportCall.file.v.name = <<"txt", ".", "csv">>
    /\ ~reportCall.out.success
    /\ ~reportCall.out.error.none
    /\ reportCall.out.error.v[1] = "Data Ingestion Error: "
    /\ reportCall.out.df.none

-----------------------------------------------------------------------------
(* C12: st.session_state.messages over a session                            *)

IsPrefix(earlier, later) ==
    /\ Len(earlier) <= Len(later)
    /\ \A i \in 1..Len(earlier) : later[i] = earlier[i]

\* the step is a chat step that ran to its end: chat_with_llm returned
CompletedChatStep == chatLog'.count = chatLog.count + 1 /\ ~chatLog'.raised

\* C12: every step of a session leaves the history it found as a prefix of
\* the history it leaves; a step without a chat step leaves the history as it
\* is, an analysis of a new file included; a completed chat step appends one
\* 'user' turn with the query and then one 'assistant' turn, nothing else.
C12_AppendOnly ==
    [][/\ IsPrefix(messages, messages')
       /\ chatLog'.count = chatLog.count => messages' = messages
       /\ CompletedChatStep =>
            /\ Len(messages') = Len(messages) + 2
            /\ messages'[Len(messages) + 1] = Turn("user", chatLog'.query)
            /\ messages'[Len(messages) + 2].role = "assistant"]_vars

\* two chat steps completed, the second after the first one's two turns
C12_Witness ==
    /\ chatLog.count = 2
    /\ ~chatLog.raised
    /\ Len(messages) = 4
    /\ messages[1] = Turn("user", Question(1))
    /\ messages[2].role = "assistant"
    /\ messages[3] = Turn("user", Question(2))
    /\ messages[4].role = "assistant"

-----------------------------------------------------------------------------
(* C13: chat queries under the rerun model                                  *)

\* the query is in the history, followed by the reply
Answered(query) ==
    \E i \in 1..(Len(messages) - 1) :
        /\ messages[i] = Turn("user", query)
        /\ messages[i + 1].role = "assistant"

\* C13: when the script run that a chat submission triggered has ended, the
\* submitted query has been forwarded to chat_with_llm and is in the history
\* followed by a reply. The chat input returns the text in that run only, so
\* a query not forwarded by its end is never forwarded.
C13_QueryForwarded ==
    ~page.prompt.none =>
        /\ chatLog.ran
        /\ chatLog.query = page.prompt.v
        /\ chatLog.submit.started
        /\ Answered(page.prompt.v)

=============================================================================
